---------------------------- MODULE Spec2Model ----------------------------
(***************************************************************************)
(* Model of src/src/utils.py: AverageTracker (a running weighted average   *)
(* of one named scalar) and AverageTrackerGroup (an OrderedDict of         *)
(* trackers keyed by name, created lazily by update).                      *)
(*                                                                         *)
(* Numbers: the code computes in Python floats.  The model draws values    *)
(* and weights from small integers and keeps the quotient sum / count as   *)
(* an exact reduced fraction [num, den], so two averages are equal in the  *)
(* model exactly when the quotients are equal.                             *)
(*                                                                         *)
(* Exceptions: a call that raises is a step whose result record carries    *)
(* the exception's name in err; the assignments the code made before the   *)
(* raise are kept, those after it are not made.                            *)
(***************************************************************************)
EXTENDS Integers, Sequences, FiniteSets, TLC

\* ------------------------------------------------------------------ bounds
\* Longest sequence of update calls on the standalone tracker between resets.
MaxHist == 3
\* Most entries of data dicts a group's update reaches in one behaviour.
MaxEntries == 3
\* The same, in behaviours that also iterate over items().
MaxIterEntries == 3
\* Most group resets in one behaviour.
MaxResets == 1

\* ------------------------------------------------------------------ inputs
\* Values and weights passed to AverageTracker.update.
Values == {2, 4, 8}
Weights == {-1, 0, 1, 3}

\* ---------------------------------------------------------------- numbers
Abs(x) == IF x < 0 THEN -x ELSE x

RECURSIVE GCD(_, _)
GCD(a, b) == IF b = 0 THEN a ELSE GCD(b, a % b)

\* The float 0. of reset().
Zero == [num |-> 0, den |-> 1]

\* The quotient a / b, b # 0, as a reduced fraction with a positive denominator.
Quot(a, b) ==
    LET g == GCD(Abs(a), Abs(b))
        s == IF b < 0 THEN -1 ELSE 1
    IN  [num |-> (s * a) \div g, den |-> (s * b) \div g]

\* ----------------------------------------------------------- AverageTracker
\* A reset that leaves count as it is.
TrackerResetNoCount(t) == [t EXCEPT !.val = 0, !.sum = 0, !.avg = Zero]

\* reset(): val = sum = count = avg = 0., name kept.
TrackerReset(t) == [t EXCEPT !.val = 0, !.sum = 0, !.count = 0, !.avg = Zero]

\* __init__(name): sets the name, then reset().
NewTracker(name) ==
    TrackerReset([name |-> name, val |-> 0, sum |-> 0, count |-> 0, avg |-> Zero])

\* An update that adds value to sum once, whatever n is.
TrackerUpdateUnweighted(t, value, n) ==
    LET s == t.sum + value
        c == t.count + n
        u == [t EXCEPT !.val = value, !.sum = s, !.count = c]
    IN  IF c = 0
        THEN [t |-> u, err |-> "ZeroDivisionError"]
        ELSE [t |-> [u EXCEPT !.avg = Quot(s, c)], err |-> "none"]

\* update(value, n): the four assignments in order; the division raises
\* ZeroDivisionError when the new count is 0, after val, sum and count were
\* assigned and before avg is.
TrackerUpdate(t, value, n) ==
    LET s == t.sum + value * n
        c == t.count + n
        u == [t EXCEPT !.val = value, !.sum = s, !.count = c]
    IN  IF c = 0
        THEN [t |-> u, err |-> "ZeroDivisionError"]
        ELSE [t |-> [u EXCEPT !.avg = Quot(s, c)], err |-> "none"]

\* item(): the current avg.
TrackerItem(t) == t.avg

\* __call__(): item().
TrackerCall(t) == TrackerItem(t)

\* update(*args): Python binds one or two positional arguments (n defaults
\* to 1); any other number raises TypeError before the body runs.
CallUpdate(t, args) ==
    IF Len(args) = 1 THEN TrackerUpdate(t, args[1], 1)
    ELSE IF Len(args) = 2 THEN TrackerUpdate(t, args[1], args[2])
    ELSE [t |-> t, err |-> "TypeError"]

VARIABLES
    tracker,    \* a standalone AverageTracker
    thist,      \* the <<value, n>> of its update calls since construction or reset
    tres,       \* its last call: the method, what it raised, what it returned,
                \* and the tracker as it was before the call
    tused       \* whether a tracker that had been updated was ever reset

tvars == <<tracker, thist, tres, tused>>

TrackerName == "t"

TInit ==
    /\ tracker = NewTracker(TrackerName)
    /\ thist = <<>>
    /\ tres = [op |-> "init", err |-> "none", val |-> Zero, old |-> tracker]
    /\ tused = FALSE

\* tracker.update(value, n).
TUpdate(value, n) ==
    /\ LET r == TrackerUpdate(tracker, value, n)
       IN  /\ tracker' = r.t
           /\ tres' = [op |-> "update", err |-> r.err, val |-> Zero, old |-> tracker]
    /\ thist' = Append(thist, <<value, n>>)
    /\ UNCHANGED tused

\* tracker.reset().
TReset ==
    /\ tracker' = TrackerReset(tracker)
    /\ thist' = <<>>
    /\ tres' = [op |-> "reset", err |-> "none", val |-> Zero, old |-> tracker]
    /\ tused' = (tused \/ thist # <<>>)

\* tracker.item().
TItem ==
    /\ tres' = [op |-> "item", err |-> "none", val |-> TrackerItem(tracker),
                old |-> tracker]
    /\ UNCHANGED <<tracker, thist, tused>>

\* tracker().
TCall ==
    /\ tres' = [op |-> "call", err |-> "none", val |-> TrackerCall(tracker),
                old |-> tracker]
    /\ UNCHANGED <<tracker, thist, tused>>

\* ------------------------------------------------------ AverageTrackerGroup
\* Names given to trackers.  "update" is also the name of a method of the
\* group, so normal attribute lookup finds it before __getattr__ is asked.
Names == {"a", "update"}

\* The attributes normal lookup finds on a group object: its methods and the
\* instance attribute _storage that reset() assigns.
GroupAttrs == {"update", "reset", "items", "_storage"}

\* A value of the data dict: a plain number (not Iterable) or a tuple of
\* positional arguments (Iterable).  args of a plain number holds the number.
Scalar(v) == [iterable |-> FALSE, args |-> <<v>>]
Tuple(s) == [iterable |-> TRUE, args |-> s]

DataValues ==
    {Scalar(2), Scalar(4), Tuple(<<2, 3>>), Tuple(<<8, 1>>), Tuple(<<4, 0>>),
     Tuple(<<>>)}

\* The data dicts passed to update: one or two names, in the dict's order.
DictsOver(names, values) ==
    {<<[name |-> n, value |-> v]>> : n \in names, v \in values}
    \cup {<<[name |-> p[1], value |-> v1], [name |-> p[2], value |-> v2]>> :
            p \in {q \in names \X names : q[1] # q[2]},
            v1 \in values, v2 \in values}

DataDicts == DictsOver(Names, DataValues)

\* The data dicts passed between the steps of an iteration over items(); a
\* third name lets a dict of two keys grow while it is iterated over.
IterDicts == DictsOver(Names \cup {"b"}, {Scalar(2), Scalar(4)})

\* An OrderedDict is the sequence of its [key, tr] entries in insertion order.
HasKey(d, name) == \E i \in 1..Len(d) : d[i].key = name
IndexOf(d, name) == CHOOSE i \in 1..Len(d) : d[i].key = name
Keys(d) == [i \in 1..Len(d) |-> d[i].key]

\* An insertion that puts the new key first.
InsertFront(d, name) == <<[key |-> name, tr |-> NewTracker(name)]>> \o d

\* self._storage[name] = AverageTracker(name) for a name not in the dict:
\* the new key goes to the end.
Insert(d, name) == Append(d, [key |-> name, tr |-> NewTracker(name)])

\* A loop body without the "not in" test: every update starts a new tracker.
EnsureAlways(d, name) ==
    IF HasKey(d, name)
    THEN [d EXCEPT ![IndexOf(d, name)].tr = NewTracker(name)]
    ELSE Insert(d, name)

\* A loop body that starts a new dict for a new name.
EnsureAlone(d, name) ==
    IF HasKey(d, name) THEN d ELSE Insert(<<>>, name)

\* if name not in self._storage: self._storage[name] = AverageTracker(name).
Ensure(d, name) == IF HasKey(d, name) THEN d ELSE Insert(d, name)

\* update(*value) for an Iterable value, update(value) for any other.
Dispatch(t, value) ==
    IF value.iterable THEN CallUpdate(t, value.args)
    ELSE CallUpdate(t, <<value.args[1]>>)

\* A loop body that undoes its entry when the update raises.
UpdateStepRollback(d, entry) ==
    LET d1 == Ensure(d, entry.name)
        i == IndexOf(d1, entry.name)
        r == Dispatch(d1[i].tr, entry.value)
    IN  IF r.err # "none" THEN [d |-> d, err |-> r.err]
        ELSE [d |-> [d1 EXCEPT ![i].tr = r.t], err |-> r.err]

\* One pass of the loop body of update: the tracker is created first, so it
\* stays in the dict when its update raises, with whatever the update
\* assigned before raising.
UpdateStep(d, entry) ==
    LET d1 == Ensure(d, entry.name)
        i == IndexOf(d1, entry.name)
        r == Dispatch(d1[i].tr, entry.value)
    IN  [d |-> [d1 EXCEPT ![i].tr = r.t], err |-> r.err]

\* The loop of update over data.items(): stops at the first entry that
\* raises.  Returns the dict, the exception and the number of entries the
\* loop reached (the failing one included).
RECURSIVE UpdateLoop(_, _, _)
UpdateLoop(d, data, reached) ==
    IF data = <<>> THEN [d |-> d, err |-> "none", reached |-> reached]
    ELSE LET r == UpdateStep(d, data[1])
         IN  IF r.err # "none"
             THEN [d |-> r.d, err |-> r.err, reached |-> reached + 1]
             ELSE UpdateLoop(r.d, Tail(data), reached + 1)

\* self._storage[item].item(): KeyError for a name not in the dict.
Lookup(d, name) ==
    IF HasKey(d, name)
    THEN [err |-> "none", kind |-> "avg", val |-> TrackerItem(d[IndexOf(d, name)].tr)]
    ELSE [err |-> "KeyError", kind |-> "none", val |-> Zero]

\* group[name].
GetItem(d, name) == Lookup(d, name)

\* group.name: Python calls __getattr__ only when normal lookup finds no
\* attribute of that name; a method name yields the bound method.
GetAttr(d, name) ==
    IF name \in GroupAttrs
    THEN [err |-> "none", kind |-> "attribute", val |-> Zero]
    ELSE Lookup(d, name)

\* list(group.items()) on a group nobody changes meanwhile.
ItemsList(d) == [i \in 1..Len(d) |-> <<d[i].key, TrackerItem(d[i].tr)>>]

DictIds == {1, 2}

VARIABLES
    heap,       \* the OrderedDict objects: DictIds -> sequence of entries
    storage,    \* self._storage: the id of the group's current dict
    gen,        \* the generator object of one items() call
    log,        \* the entries update reached since construction or reset
    clean,      \* no update has raised since construction or reset
    dropped,    \* the dict the group held when it was last reset
    res,        \* the group's last call
    total,      \* number of entries update has reached
    resets      \* number of reset() calls

gvars == <<heap, storage, gen, log, clean, dropped, res, total, resets>>
vars == <<tracker, thist, tres, tused, heap, storage, gen, log, clean, dropped, res, total, resets>>

NoGen == [state |-> "none", dict |-> 0, pos |-> 0, size |-> 0, snap |-> <<>>]

Result(op, key, r, data, pair) ==
    [op |-> op, key |-> key, err |-> r.err, kind |-> r.kind, val |-> r.val,
     data |-> data, pair |-> pair]

Ok == [err |-> "none", kind |-> "none", val |-> Zero]
Raise(e) == [err |-> e, kind |-> "none", val |-> Zero]

GInit ==
    /\ heap = [d \in DictIds |-> <<>>]
    /\ storage = 1
    /\ gen = NoGen
    /\ log = <<>>
    /\ clean = TRUE
    /\ dropped = <<>>
    /\ res = Result("init", "", Ok, <<>>, <<>>)
    /\ total = 0
    /\ resets = 0

\* update(data).
GroupUpdate(data) ==
    /\ LET r == UpdateLoop(heap[storage], data, 0)
       IN  /\ heap' = [heap EXCEPT ![storage] = r.d]
           /\ log' = log \o SubSeq(data, 1, r.reached)
           /\ total' = total + r.reached
           /\ clean' = (clean /\ r.err = "none")
           /\ res' = Result("update", "", Raise(r.err), data, <<>>)
    /\ UNCHANGED <<storage, gen, dropped, resets>>

\* The id of the OrderedDict reset() creates.  The old dict lives on only
\* while a running generator iterates over it; otherwise it is garbage and
\* its id is used again.
NewDictId ==
    IF gen.state = "running" /\ gen.dict = storage
    THEN CHOOSE d \in DictIds : d # storage
    ELSE storage

\* A reset that keeps the dict and resets each tracker in it.
GroupResetZeroing ==
    /\ resets < MaxResets
    /\ resets' = resets + 1
    /\ heap' = [heap EXCEPT ![storage] =
                  [i \in 1..Len(heap[storage]) |->
                     [heap[storage][i] EXCEPT !.tr = TrackerReset(@)]]]
    /\ log' = <<>>
    /\ clean' = TRUE
    /\ dropped' = heap[storage]
    /\ res' = Result("reset", "", Ok, <<>>, <<>>)
    /\ UNCHANGED <<storage, gen, total>>

\* reset(): self._storage is bound to a new, empty OrderedDict.
GroupReset ==
    /\ resets < MaxResets
    /\ resets' = resets + 1
    /\ storage' = NewDictId
    /\ heap' = [heap EXCEPT ![NewDictId] = <<>>]
    /\ log' = <<>>
    /\ clean' = TRUE
    /\ dropped' = heap[storage]
    /\ res' = Result("reset", "", Ok, <<>>, <<>>)
    /\ UNCHANGED <<gen, total>>

\* A read that creates the tracker of an unknown name, as a defaultdict would.
GroupGetItemCreating(name) ==
    /\ heap' = [heap EXCEPT ![storage] = Ensure(@, name)]
    /\ res' = Result("getitem", name, GetItem(heap'[storage], name), <<>>, <<>>)
    /\ UNCHANGED <<storage, gen, log, clean, dropped, total, resets>>

\* group[name].
GroupGetItem(name) ==
    /\ res' = Result("getitem", name, GetItem(heap[storage], name), <<>>, <<>>)
    /\ UNCHANGED <<heap, storage, gen, log, clean, dropped, total, resets>>

\* group.name.
GroupGetAttr(name) ==
    /\ res' = Result("getattr", name, GetAttr(heap[storage], name), <<>>, <<>>)
    /\ UNCHANGED <<heap, storage, gen, log, clean, dropped, total, resets>>

\* list(group.items()): the generator run to its end in one go.
GroupList ==
    /\ res' = Result("list", "", Ok, <<>>, ItemsList(heap[storage]))
    /\ UNCHANGED <<heap, storage, gen, log, clean, dropped, total, resets>>

\* items() is a generator function: the call only creates the generator,
\* the body starts at the first next().  snap remembers the dict as it was
\* at the call.
GroupItems ==
    /\ gen' = [NoGen EXCEPT !.state = "created", !.snap = heap[storage]]
    /\ heap' = IF gen.state = "running" /\ gen.dict # storage
               THEN [heap EXCEPT ![gen.dict] = <<>>]
               ELSE heap
    /\ res' = Result("items", "", Ok, <<>>, <<>>)
    /\ UNCHANGED <<storage, log, clean, dropped, total, resets>>

\* The first next() evaluates self._storage.items() and starts the dict's
\* iterator on the dict the group holds at that moment.
Started(g) ==
    IF g.state = "created"
    THEN [g EXCEPT !.state = "running", !.dict = storage,
                   !.pos = IF Len(heap[storage]) > 0 THEN 1 ELSE 0,
                   !.size = Len(heap[storage])]
    ELSE g

\* A yield of the average the tracker had when items() was called.
YieldPairSnapshot(g) ==
    LET e == IF g.pos <= Len(g.snap) THEN g.snap[g.pos] ELSE heap[g.dict][g.pos]
    IN  <<e.key, TrackerItem(e.tr)>>

\* yield (key, val.item()): the key the iterator stands on and the average
\* its tracker has now.
YieldPair(g) ==
    LET e == heap[g.dict][g.pos] IN <<e.key, TrackerItem(e.tr)>>

\* next(generator).  The OrderedDict iterator ends when it stands past the
\* last key, raises RuntimeError when the dict has changed size since the
\* iteration began, and otherwise hands out its key and moves on.  A
\* generator that ended or raised lets go of the dict.
GenNext ==
    /\ gen.state \in {"created", "running"}
    /\ LET g == Started(gen)
           freed == IF g.dict # storage THEN [heap EXCEPT ![g.dict] = <<>>] ELSE heap
       IN  IF g.pos = 0
           THEN /\ gen' = [NoGen EXCEPT !.state = "done"]
                /\ heap' = freed
                /\ res' = Result("next", "", Raise("StopIteration"), <<>>, <<>>)
           ELSE IF Len(heap[g.dict]) # g.size
           THEN /\ gen' = [NoGen EXCEPT !.state = "failed"]
                /\ heap' = freed
                /\ res' = Result("next", "", Raise("RuntimeError"), <<>>, <<>>)
           ELSE /\ gen' = [g EXCEPT !.pos = IF g.pos < g.size THEN g.pos + 1 ELSE 0]
                /\ heap' = heap
                /\ res' = Result("next", "", [err |-> "none", kind |-> "pair", val |-> Zero],
                                 <<>>, YieldPair(g))
    /\ UNCHANGED <<storage, log, clean, dropped, total, resets>>

\* ----------------------------------------------------------- specifications
Init == TInit /\ GInit

\* A standalone tracker driven by its caller.
TNext ==
    \/ \E value \in Values, n \in Weights :
         Len(thist) < MaxHist /\ TUpdate(value, n) /\ UNCHANGED gvars
    \/ TReset /\ UNCHANGED gvars
    \/ TItem /\ UNCHANGED gvars
    \/ TCall /\ UNCHANGED gvars

SpecTracker == Init /\ [][TNext]_vars

\* A group driven by its caller: updates, resets and reads by name.
Next ==
    \/ \E data \in DataDicts :
         total + Len(data) <= MaxEntries /\ GroupUpdate(data) /\ UNCHANGED tvars
    \/ GroupReset /\ UNCHANGED tvars
    \/ \E name \in Names : GroupGetItem(name) /\ UNCHANGED tvars
    \/ \E name \in Names : GroupGetAttr(name) /\ UNCHANGED tvars
    \/ GroupList /\ UNCHANGED tvars

Spec == Init /\ [][Next]_vars

\* The same caller, also iterating over items() between its other calls.
INext ==
    \/ \E data \in IterDicts :
         total + Len(data) <= MaxIterEntries /\ GroupUpdate(data) /\ UNCHANGED tvars
    \/ GroupReset /\ UNCHANGED tvars
    \/ \E name \in Names : GroupGetItem(name) /\ UNCHANGED tvars
    \/ GroupItems /\ UNCHANGED tvars
    \/ GenNext /\ UNCHANGED tvars

SpecItems == Init /\ [][INext]_vars

\* ------------------------------------------------------- tracker properties
\* The cumulative weighted total and the cumulative weight of a sequence of
\* update calls.
RECURSIVE SumVN(_)
SumVN(h) == IF h = <<>> THEN 0 ELSE h[1][1] * h[1][2] + SumVN(Tail(h))

RECURSIVE SumN(_)
SumN(h) == IF h = <<>> THEN 0 ELSE h[1][2] + SumN(Tail(h))

\* A tracker after the update calls of h, one after the other.
RECURSIVE Replay(_, _)
Replay(t, h) ==
    IF h = <<>> THEN t
    ELSE Replay(TrackerUpdate(t, h[1][1], h[1][2]).t, Tail(h))

\* C1: after every update call that leaves the cumulative weight positive,
\* avg is the weighted total of all calls so far divided by their total
\* weight: avg * count = sum.
AvgIsWeightedMean ==
    (thist # <<>> /\ SumN(thist) > 0) =>
        /\ tracker.avg = Quot(SumVN(thist), SumN(thist))
        /\ tracker.avg.num * SumN(thist) = SumVN(thist) * tracker.avg.den

\* update(2, 3) then update(8, 1): avg = 14 / 4 = 7 / 2.
AvgIsWeightedMeanWitness ==
    /\ thist = <<<<2, 3>>, <<8, 1>>>>
    /\ tres.op = "update"
    /\ tracker.avg = [num |-> 7, den |-> 2]

\* C2: an update that leaves the cumulative count at 0 raises nothing and
\* leaves avg at the value it had before the call.
ZeroCountUpdateIsNoOp ==
    (tres.op = "update" /\ tracker.count = 0) =>
        /\ tres.err = "none"
        /\ tracker.avg = tres.old.avg

\* C7: after reset() val, sum, count and avg are 0, item() gives 0 and the
\* name is the one given at construction; the tracker is then, after any
\* further updates, what a fresh tracker is after the same updates.
ResetGivesFreshTracker ==
    /\ tracker.name = TrackerName
    /\ tres.op = "reset" =>
          /\ tracker.val = 0 /\ tracker.sum = 0 /\ tracker.count = 0
          /\ tracker.avg = Zero
          /\ TrackerItem(tracker) = Zero
    /\ tracker = Replay(NewTracker(TrackerName), thist)

\* A tracker that was updated, reset, then given update(2) and update(4).
ResetGivesFreshTrackerWitness ==
    /\ tused
    /\ thist = <<<<2, 1>>, <<4, 1>>>>
    /\ tracker.avg = [num |-> 3, den |-> 1]

\* --------------------------------------------------------- group properties
Storage == heap[storage]

\* What a standalone tracker does with one value of a data dict: update(value)
\* for a plain number, update(value, n) for a (value, n) pair.
StandaloneUpdate(t, value) ==
    IF value.iterable
    THEN TrackerUpdate(t, value.args[1], value.args[2]).t
    ELSE TrackerUpdate(t, value.args[1], 1).t

\* A standalone tracker after the values the entries of l give for name.
RECURSIVE Standalone(_, _, _)
Standalone(t, name, l) ==
    IF l = <<>> THEN t
    ELSE IF l[1].name = name
         THEN Standalone(StandaloneUpdate(t, l[1].value), name, Tail(l))
         ELSE Standalone(t, name, Tail(l))

\* The names of l in order of first appearance.
RECURSIVE FirstSeen(_, _)
FirstSeen(l, seen) ==
    IF l = <<>> THEN <<>>
    ELSE IF l[1].name \in seen THEN FirstSeen(Tail(l), seen)
         ELSE <<l[1].name>> \o FirstSeen(Tail(l), seen \cup {l[1].name})

NamesOf(l) == {l[i].name : i \in 1..Len(l)}

IsRead(op) == op \in {"getitem", "getattr"}

\* C3 as stated: every read of a name that is not in storage, by indexing or
\* as an attribute, raises the lookup error and changes nothing.
UnknownNameReadFails ==
    [][(IsRead(res'.op) /\ ~HasKey(Storage, res'.key)) =>
          /\ res'.err = "KeyError"
          /\ heap' = heap /\ storage' = storage]_vars

\* C3: a read of a name that is not in storage changes nothing; it raises
\* the lookup error when it is by indexing, or as an attribute whose name is
\* not an attribute of the group object itself; the name of a method or of
\* _storage read as an attribute gives that attribute and raises nothing.
UnknownNameReadFailsUnlessAttribute ==
    [][(IsRead(res'.op) /\ ~HasKey(Storage, res'.key)) =>
          /\ heap' = heap /\ storage' = storage
          /\ (res'.op = "getitem" \/ res'.key \notin GroupAttrs) =>
                res'.err = "KeyError"
          /\ (res'.op = "getattr" /\ res'.key \in GroupAttrs) =>
                (res'.err = "none" /\ res'.kind = "attribute")]_vars

\* group.a raised KeyError on a group that tracks only "update".
UnknownNameReadWitness ==
    /\ res.op = "getattr" /\ res.key = "a" /\ res.err = "KeyError"
    /\ Keys(Storage) = <<"update">>

\* C4: while no update has raised, group[name] is the average of a fresh
\* standalone tracker given, in order, the values the updates gave for that
\* name, and a name is tracked exactly when some update gave it a value.
GroupMatchesStandalone ==
    clean =>
        \A name \in Names :
            /\ HasKey(Storage, name) <=> name \in NamesOf(log)
            /\ HasKey(Storage, name) =>
                 /\ GetItem(Storage, name).err = "none"
                 /\ GetItem(Storage, name).val =
                       TrackerItem(Standalone(NewTracker(name), name, log))

\* {"a": (2.0, 3)}, then {"update": 4.0}, then {"a": (8.0, 1)}:
\* group["a"] = 14 / 4 = 7 / 2.
GroupMatchesStandaloneWitness ==
    /\ clean
    /\ log = <<[name |-> "a", value |-> Tuple(<<2, 3>>)],
               [name |-> "update", value |-> Scalar(4)],
               [name |-> "a", value |-> Tuple(<<8, 1>>)]>>
    /\ res.op = "getitem" /\ res.key = "a"
    /\ res.val = [num |-> 7, den |-> 2]

\* C5: every key of storage maps to a tracker of that name; a key appears
\* only in an update whose data mentions it, and no call but reset removes
\* a key.
KeysNameTrackersAndStay ==
    /\ [](\A i \in 1..Len(Storage) : Storage[i].tr.name = Storage[i].key)
    /\ [][/\ \A name \in Names :
               (~HasKey(Storage, name) /\ HasKey(Storage', name)) =>
                   (res'.op = "update" /\ name \in NamesOf(res'.data))
          /\ res'.op # "reset" =>
               \A name \in Names : HasKey(Storage, name) => HasKey(Storage', name)]_vars

\* Both names tracked, three entries processed, then a read.
KeysNameTrackersAndStayWitness ==
    /\ Len(Storage) = 2
    /\ total = 3
    /\ IsRead(res.op) /\ res.err = "none"

\* C6: list(items()) gives the tracked names in order of first insertion,
\* each with its current average; a second listing right after the first
\* gives the same; an update leaves the names it found in their places and
\* puts new names at the end.
ItemsInFirstInsertionOrder ==
    /\ [](res.op = "list" =>
            /\ Len(res.pair) = Len(Storage)
            /\ [i \in 1..Len(res.pair) |-> res.pair[i][1]] = FirstSeen(log, {})
            /\ \A i \in 1..Len(res.pair) :
                 res.pair[i][2] = GetItem(Storage, res.pair[i][1]).val)
    /\ [][/\ (res.op = "list" /\ res'.op = "list") => res'.pair = res.pair
          /\ res'.op = "update" =>
               /\ Len(Storage') >= Len(Storage)
               /\ SubSeq(Keys(Storage'), 1, Len(Storage)) = Keys(Storage)]_vars

\* "update" first, "a" second, "update" updated again, then listed.
ItemsInFirstInsertionOrderWitness ==
    /\ res.op = "list"
    /\ Len(log) = 3 /\ log[1].name = "update" /\ log[2].name = "a"
    /\ log[3].name = "update"
    /\ res.pair[1][1] = "update" /\ res.pair[2][1] = "a"
    /\ res.pair[1][2] # Zero

\* The trackers of a dict after the entries of l, by the loop body of update.
RECURSIVE Replayed(_, _)
Replayed(d, l) == IF l = <<>> THEN d ELSE Replayed(UpdateStep(d, l[1]).d, Tail(l))

\* C8: a group reset leaves storage empty: items() gives nothing and every
\* read by name raises the lookup error; after it the group is what the
\* updates made since that reset make of an empty group.
ResetEmptiesGroup ==
    /\ [][resets' # resets =>
            /\ Storage' = <<>>
            /\ ItemsList(Storage') = <<>>
            /\ \A name \in Names : GetItem(Storage', name).err = "KeyError"]_vars
    /\ [](resets > 0 => Storage = Replayed(<<>>, log))

\* "a" had average 2 when the group was reset and has average 4 after one
\* update since.
ResetEmptiesGroupWitness ==
    /\ resets > 0
    /\ HasKey(dropped, "a") /\ GetItem(dropped, "a").val = [num |-> 2, den |-> 1]
    /\ log = <<[name |-> "a", value |-> Scalar(4)]>>
    /\ res.op = "getitem" /\ res.key = "a" /\ res.val = [num |-> 4, den |-> 1]

\* C9: an update that raises at entry k of its data has applied entries
\* 1..k-1, has touched no tracker of a name outside entries 1..k, and leaves
\* the name of entry k in storage, so that reading it raises nothing.
FailedUpdateIsPartial ==
    [][(res'.op = "update" /\ res'.err # "none" /\ total' # total) =>
          LET k == total' - total
              data == res'.data
              before == SubSeq(data, 1, k - 1)
          IN  /\ k \in 1..Len(data)
              /\ \A i \in 1..(k - 1) :
                   /\ HasKey(Storage', data[i].name)
                   /\ Storage'[IndexOf(Storage', data[i].name)].tr =
                        StandaloneUpdate(
                          IF HasKey(Storage, data[i].name)
                          THEN Storage[IndexOf(Storage, data[i].name)].tr
                          ELSE NewTracker(data[i].name),
                          data[i].value)
              /\ HasKey(Storage', data[k].name)
              /\ GetItem(Storage', data[k].name).err = "none"
              /\ \A name \in Names \ NamesOf(SubSeq(data, 1, k)) :
                   /\ HasKey(Storage', name) <=> HasKey(Storage, name)
                   /\ HasKey(Storage, name) =>
                        Storage'[IndexOf(Storage', name)] =
                          Storage[IndexOf(Storage, name)]]_vars

\* update({"a": 2.0, "update": ()}) on an empty group raised TypeError: "a"
\* has average 2 and "update" is tracked with average 0.
FailedUpdateIsPartialWitness ==
    /\ res.op = "update" /\ res.err = "TypeError"
    /\ res.data = <<[name |-> "a", value |-> Scalar(2)],
                    [name |-> "update", value |-> Tuple(<<>>)]>>
    /\ log = res.data
    /\ Keys(Storage) = <<"a", "update">>
    /\ GetItem(Storage, "a").val = [num |-> 2, den |-> 1]
    /\ GetItem(Storage, "update").err = "none"
    /\ GetItem(Storage, "update").val = Zero

\* C10: each next() yields the key the iterator stands on with the average
\* its tracker has at that moment, not the one it had when items() was
\* called; a reset during the iteration leaves the generator and the dict it
\* iterates over as they are, while the group's own dict is empty.
ItemsIsLazy ==
    [][/\ (gen'.state = "running" /\ (gen.state = "created" \/ gen'.pos # gen.pos)) =>
            LET g == Started(gen)
                e == heap[g.dict][g.pos]
            IN  /\ res'.op = "next" /\ res'.kind = "pair"
                /\ res'.pair = <<e.key, e.tr.avg>>
       /\ (resets' # resets /\ gen.state = "running") =>
            /\ gen' = gen
            /\ heap'[gen.dict] = heap[gen.dict]
            /\ storage' # gen.dict
            /\ ItemsList(Storage') = <<>>]_vars

\* The second pair was yielded after its tracker was updated and after the
\* group was reset: it carries the new average and comes from the old dict.
ItemsIsLazyWitness ==
    /\ res.op = "next" /\ res.kind = "pair"
    /\ gen.dict # storage
    /\ Storage = <<>>
    /\ Len(gen.snap) = 2
    /\ res.pair[1] = gen.snap[2].key
    /\ res.pair[2] # gen.snap[2].tr.avg

=============================================================================
